---- MODULE Spec2Model ----
(***************************************************************************)
(* The transaction submission engine of primev/go-scripts:                 *)
(* ETHClient.CreateTransactOpts, ETHClient.BoostTipForTransactOpts and     *)
(* ETHClient.WaitMinedWithRetry (cmd/test-duties/main.go, and the          *)
(* identical copy in cmd/stake/main.go), with the per-attempt confirmation *)
(* listener goroutine and the 60-second timeout context; the batch scripts *)
(* that call the engine (cmd/stake, cmd/migrate, cmd/holesky-migrate and   *)
(* the unstake script); and the DutiesCache of cmd/test-duties.            *)
(***************************************************************************)
EXTENDS Integers, Sequences, FiniteSets, TLC

(* ---------------- bounds of the model ---------------- *)

\* the fee-suggestion RPCs answer k * FeeStep, k in 0..MaxSuggest
MaxSuggest == 1
FeeStep == 7
\* PendingNonceAt answers 0..MaxNonce
MaxNonce == 1
\* the caller attaches a value of 1..MaxValue
MaxValue == 1
\* the key file of a batch script holds one full batch of keys, or MaxKeys keys
MaxKeys == 21
\* the duties cache is used for epochs 0..MaxEpoch, with responses of up to
\* MaxDuties duties
MaxEpoch == 1
MaxDuties == 2

(* ---------------- program constants ---------------- *)

\* the retry budget one too large
maxRetriesOffByOne == 10 + 1

maxRetries == 10
GasLimit == 3000000
\* keys per batch in stake, migrate and holesky-migrate
batchSize == 20

(* ---------------- values ---------------- *)

Suggestions == {k * FeeStep : k \in 0..MaxSuggest}

\* error texts are sequences of words
Underpriced == <<"replacement", "transaction", "underpriced">>
AlreadyKnown == <<"already", "known">>

\* errors the submission callback can come back with
SubmitErrors ==
    { Underpriced,
      AlreadyKnown,
      <<"failed", "to", "stake", "already", "known">>,
      <<"failed", "to", "stake", "nonce", "too", "low">>,
      <<"known", "already">> }

DeadlineExceeded == <<"context", "deadline", "exceeded">>
RPCFailure == <<"connection", "reset">>

NoText == <<>>
NoTx == -1
NoReceipt == [tx |-> NoTx, Status |-> -1]
NilErr == [fmt |-> "nil", attempt |-> -1, cause |-> NoText]
NoRet == [receipt |-> NoReceipt, err |-> NilErr, returned |-> FALSE]

\* strings.Contains on word sequences: sub occurs contiguously in s
Contains(s, sub) ==
    \E i \in 0..(Len(s) - Len(sub)) : SubSeq(s, i + 1, i + Len(sub)) = sub

\* fmt.Errorf(format, attempt, err): an error that wraps cause
Errorf(format, a, cause) == [fmt |-> format, attempt |-> a, cause |-> cause]

Return(receipt, e) == [receipt |-> receipt, err |-> e, returned |-> TRUE]

VARIABLES
    pc,          \* position of the calling flow
    attempt,     \* loop variable of WaitMinedWithRetry
    opts,        \* *bind.TransactOpts shared by caller, boost and callback
    tx,          \* var tx: attempt index of the handle, NoTx when nil
    err,         \* var err: text of the last submission error, NoText when nil
    timeoutCtx,  \* this iteration's timeout context: "none", "active", "done"
    receiptChan, \* this iteration's receiptChan: receipt offered by the listener
    errChan,     \* this iteration's errChan: error offered by the listener
    listener,    \* state of the listener goroutine started by each attempt
    ret,         \* what WaitMinedWithRetry returned
    submits,     \* number of calls of submitTx
    boosts,      \* number of calls of BoostTipForTransactOpts
    lastSubmit,  \* tip and fee cap the previous call of submitTx was made with
    allKnown,    \* every call of submitTx so far failed with "already known"
    allTimedOut, \* every attempt that ended so far was submitted and timed out
    suggested,   \* newGasTip, newFeeCap the network answered to this iteration's boost
    supplied,    \* nonce, gas limit, value and sender of opts as the caller passed them
    pool,        \* the transactions the callback has broadcast to the network
    included,    \* the transactions of pool the chain has included in a block
    script,      \* the program that calls the engine, "none" for the engine alone
    batches,     \* number of public keys in each batch the script has built
    idx,         \* the batch the script is at (1-based)
    spc,         \* the script: "running", "halted", "completed"
    receipt,     \* the script's variable receipt after the current engine call
    duties,      \* DutiesCache.duties: the map from epoch to []ProposerDuty
    call         \* the last call made on the cache, with the map it found

engineVars == <<pc, attempt, opts, tx, err, ret>>
waitVars == <<timeoutCtx, receiptChan, errChan, listener>>
histVars == <<submits, boosts, lastSubmit, allKnown, allTimedOut, suggested, supplied>>
chainVars == <<pool, included>>
scriptVars == <<script, batches, idx, spc, receipt>>
cacheVars == <<duties, call>>
vars == <<pc, attempt, opts, tx, err, timeoutCtx, receiptChan, errChan,
          listener, ret, submits, boosts, lastSubmit, allKnown, allTimedOut,
          suggested, supplied, pool, included, script, batches, idx, spc, receipt,
          duties, call>>

Attempts == 0..(maxRetries - 1)
NoOpts ==
    [From |-> "", Nonce |-> -1, Value |-> 0, GasTipCap |-> -1, GasFeeCap |-> -1,
     GasLimit |-> 0]

\* the fields of the options that are not fees
Frame(o) == [From |-> o.From, Nonce |-> o.Nonce, Value |-> o.Value, GasLimit |-> o.GasLimit]
NoSubmit == [tip |-> -1, feeCap |-> -1]
NoSuggestion == [tip |-> -1, feeCap |-> -1]

\* a caller is about to build the options for an invocation of the engine
EngineStart ==
    /\ pc = "create"
    /\ attempt = 0
    /\ opts = NoOpts
    /\ tx = NoTx
    /\ err = NoText
    /\ timeoutCtx = "none"
    /\ receiptChan = NoReceipt
    /\ errChan = NoText
    /\ listener = [a \in Attempts |-> "none"]
    /\ ret = NoRet
    /\ submits = 0
    /\ boosts = 0
    /\ lastSubmit = NoSubmit
    /\ allKnown = TRUE
    /\ allTimedOut = TRUE
    /\ suggested = NoSuggestion
    /\ supplied = Frame(NoOpts)
    /\ pool = {}
    /\ included = {}

Epochs == 0..MaxEpoch

\* a []ProposerDuty: the nil slice, or a slice with its elements
NilSlice == [nil |-> TRUE, elems |-> <<>>]
Slice(q) == [nil |-> FALSE, elems |-> q]

\* what a map read gives for a key that is not there: the nil slice, false
NoEntry == [present |-> FALSE, slice |-> NilSlice]

\* NewDutiesCache: the empty map
NewDutiesCache == [e \in Epochs |-> NoEntry]

NoCall == [op |-> "none", epoch |-> 0, arg |-> [nil |-> TRUE, Data |-> <<>>],
           before |-> NewDutiesCache, result |-> FALSE]

\* the engine on its own, with a caller that makes one invocation
Init ==
    /\ EngineStart
    /\ script = "none"
    /\ batches = <<>>
    /\ idx = 0
    /\ spc = "running"
    /\ receipt = NoReceipt
    /\ duties = NewDutiesCache
    /\ call = NoCall

(* ---------------- the value a batch script attaches ---------------- *)

Scripts == {"stake", "migrate", "holesky-migrate", "unstake"}

\* amountPerValidator in units of 10^14 wei: 3.1 ether in stake, 0.0001 ether
\* in migrate and holesky-migrate
amountPerValidator(s) == IF s = "stake" THEN 31000 ELSE 1

\* "for i := 0; i < len(keys); i += batchSize": the number of keys in
\* keys[i:end] with end = min(i + batchSize, len(keys)), batch after batch
RECURSIVE SplitFrom(_, _)
SplitFrom(i, n) ==
    IF i < n
    THEN <<(IF i + batchSize > n THEN n ELSE i + batchSize) - i>>
            \o SplitFrom(i + batchSize, n)
    ELSE <<>>

\* the batches a script makes of its keys (migrate and holesky-migrate: the
\* sub-batches of one stake originator); unstake passes all its keys to one call
Batches(s, keys) == IF s = "unstake" THEN <<keys>> ELSE SplitFrom(0, keys)

\* opts.Value as the script sets it for batch i of b: stake multiplies by
\* batchSize, migrate and holesky-migrate by len(subBatch), unstake sets none
TotalAmount(s, b, i) ==
    CASE s = "stake" -> amountPerValidator(s) * batchSize
      [] s \in {"migrate", "holesky-migrate"} -> amountPerValidator(s) * b[i]
      [] OTHER -> 0

\* the values the caller of this invocation can attach
Amounts == IF script = "none" THEN 1..MaxValue ELSE {TotalAmount(script, batches, idx)}

(* ---------------- CreateTransactOpts ---------------- *)

\* auth.From of the transactor made from the private key
Sender == "sender"

\* auth after a successful CreateTransactOpts: pending nonce, suggested
\* tip and gas price taken over unchecked, fixed gas limit
NewTransactOpts(nonce, gasTip, gasPrice) ==
    [From |-> Sender, Nonce |-> nonce, Value |-> 0, GasTipCap |-> gasTip,
     GasFeeCap |-> gasPrice, GasLimit |-> GasLimit]

\* the caller builds the options, sets opts.Value and enters
\* WaitMinedWithRetry at attempt 0; when PendingNonceAt or a fee suggestion
\* fails the caller stops
CreateTransactOpts ==
    /\ pc = "create"
    /\ \/ \E nonce \in 0..MaxNonce, gasTip \in Suggestions, gasPrice \in Suggestions,
             totalAmount \in Amounts :
             /\ opts' = [NewTransactOpts(nonce, gasTip, gasPrice)
                           EXCEPT !.Value = totalAmount]
             /\ supplied' = Frame(opts')
             /\ pc' = "submit"
       \/ /\ opts' = opts
          /\ supplied' = supplied
          /\ pc' = "fatal"
    /\ attempt' = 0
    /\ UNCHANGED <<tx, err, ret>>
    /\ UNCHANGED waitVars
    /\ UNCHANGED <<submits, boosts, lastSubmit, allKnown, allTimedOut, suggested>>
    /\ UNCHANGED chainVars
    /\ UNCHANGED scriptVars
    /\ UNCHANGED cacheVars

(* ---------------- BoostTipForTransactOpts ---------------- *)

\* the 10% increase without the extra unit
BoostedNoIncrement(x) == x + (x \div 10)

\* x + x/10 + 1 (big.Int division of non-negative values)
Boosted(x) == x + (x \div 10) + 1

\* the comparison turned round: the smaller of the two
MaxOfSwapped(a, b) == IF a < b THEN a ELSE b

\* "if a.Cmp(b) == 1 then a else b"
MaxOf(a, b) == IF a > b THEN a ELSE b

\* the checks without the one on the previous base fee
BoostErrorNewOnly(o, newGasTip, newFeeCap) ==
    IF newFeeCap - newGasTip < 0
    THEN <<"new base fee cannot be negative">>
    ELSE NoText

\* the error BoostTipForTransactOpts returns for the suggested newGasTip and
\* newFeeCap, NoText when it returns nil
BoostError(o, newGasTip, newFeeCap) ==
    IF newFeeCap - newGasTip < 0
    THEN <<"new base fee cannot be negative">>
    ELSE IF o.GasFeeCap - o.GasTipCap < 0
         THEN <<"base fee cannot be negative">>
         ELSE NoText

\* the boost with the fee cap set to the boosted base fee alone
BoostedOptsCapWithoutTip(o, newGasTip, newFeeCap) ==
    LET newBaseFee == newFeeCap - newGasTip
        prevBaseFee == o.GasFeeCap - o.GasTipCap
        maxBaseFee == IF newBaseFee > prevBaseFee THEN newBaseFee ELSE prevBaseFee
        maxGasTip == IF newGasTip > o.GasTipCap THEN newGasTip ELSE o.GasTipCap
        boostedTip == maxGasTip + (maxGasTip \div 10) + 1
        boostedBaseFee == maxBaseFee + (maxBaseFee \div 10) + 1
    IN  [o EXCEPT !.GasTipCap = boostedTip,
                  !.GasFeeCap = boostedBaseFee]

\* the boost taking the next nonce for the resubmission
BoostedOptsNextNonce(o, newGasTip, newFeeCap) ==
    LET newBaseFee == newFeeCap - newGasTip
        prevBaseFee == o.GasFeeCap - o.GasTipCap
        maxBaseFee == IF newBaseFee > prevBaseFee THEN newBaseFee ELSE prevBaseFee
        maxGasTip == IF newGasTip > o.GasTipCap THEN newGasTip ELSE o.GasTipCap
        boostedTip == maxGasTip + (maxGasTip \div 10) + 1
        boostedBaseFee == maxBaseFee + (maxBaseFee \div 10) + 1
    IN  [o EXCEPT !.GasTipCap = boostedTip,
                  !.GasFeeCap = boostedBaseFee + boostedTip,
                  !.Nonce = o.Nonce + 1]

\* the boost computed from the suggested base fee alone
BoostedOptsNewBaseFeeOnly(o, newGasTip, newFeeCap) ==
    LET newBaseFee == newFeeCap - newGasTip
        maxGasTip == IF newGasTip > o.GasTipCap THEN newGasTip ELSE o.GasTipCap
        boostedTip == maxGasTip + (maxGasTip \div 10) + 1
        boostedBaseFee == newBaseFee + (newBaseFee \div 10) + 1
    IN  [o EXCEPT !.GasTipCap = boostedTip,
                  !.GasFeeCap = boostedBaseFee + boostedTip]

\* the options as BoostTipForTransactOpts leaves them when it returns nil
BoostedOpts(o, newGasTip, newFeeCap) ==
    LET newBaseFee == newFeeCap - newGasTip
        prevBaseFee == o.GasFeeCap - o.GasTipCap
        maxBaseFee == MaxOf(newBaseFee, prevBaseFee)
        maxGasTip == MaxOf(newGasTip, o.GasTipCap)
        boostedTip == Boosted(maxGasTip)
        boostedBaseFee == Boosted(maxBaseFee)
    IN  [o EXCEPT !.GasTipCap = boostedTip,
                  !.GasFeeCap = boostedBaseFee + boostedTip]

(* ---------------- WaitMinedWithRetry ---------------- *)

\* the error test without its "already known" half
IsSoftOnlyUnderpriced(e) == Contains(e, Underpriced)

\* the error test with "nonce too low" taken for a soft error as well
IsSoftAlsoNonceTooLow(e) ==
    \/ Contains(e, Underpriced)
    \/ Contains(e, AlreadyKnown)
    \/ Contains(e, <<"nonce", "too", "low">>)

\* the error test of the submission branch
IsSoftSubmitError(e) == Contains(e, Underpriced) \/ Contains(e, AlreadyKnown)

\* the last-attempt test against maxRetries instead of maxRetries-1
IsLastAttemptOffByOne(a) == a = maxRetries

\* "if attempt == maxRetries-1" of the timeout branch
IsLastAttempt(a) == a = maxRetries - 1

\* loop condition "attempt < maxRetries"
LoopContinues(a) == a < maxRetries

\* the boost skipped for the first resubmission
NeedsBoostAfterSecond(a) == a > 1

\* "if attempt > 0" at the head of the loop body
NeedsBoost(a) == a > 0

UnexpectedErr ==
    Errorf("unexpected error: control flow should not reach end of WaitMinedWithRetry",
           -1, NoText)

\* attempt++ followed by the loop test: the next iteration boosts, or the
\* loop is left and the function returns its last statement
NextIteration ==
    /\ attempt' = attempt + 1
    /\ IF LoopContinues(attempt + 1)
       THEN /\ pc' = IF NeedsBoost(attempt + 1) THEN "boost" ELSE "submit"
            /\ ret' = ret
       ELSE /\ pc' = "done"
            /\ ret' = Return(NoReceipt, UnexpectedErr)

\* a boost that writes the boosted fees into the options before its checks
BoostAssignsBeforeChecks ==
    /\ pc = "boost"
    /\ boosts' = boosts + 1
    /\ \/ \E newGasTip \in Suggestions, newFeeCap \in Suggestions :
             LET e == BoostError(opts, newGasTip, newFeeCap) IN
             /\ suggested' = [tip |-> newGasTip, feeCap |-> newFeeCap]
             /\ opts' = BoostedOpts(opts, newGasTip, newFeeCap)
             /\ IF e = NoText
                THEN /\ pc' = "submit"
                     /\ ret' = ret
                ELSE /\ pc' = "done"
                     /\ ret' = Return(NoReceipt,
                                     Errorf("failed to boost gas tip for attempt %d: %w",
                                            attempt, e))
       \/ /\ suggested' = NoSuggestion
          /\ opts' = opts
          /\ pc' = "done"
          /\ ret' = Return(NoReceipt,
                          Errorf("failed to boost gas tip for attempt %d: %w", attempt,
                                 <<"failed to suggest gas tip cap and price">>))
    /\ UNCHANGED <<attempt, tx, err>>
    /\ UNCHANGED waitVars
    /\ UNCHANGED <<submits, lastSubmit, allKnown, allTimedOut, supplied>>
    /\ UNCHANGED chainVars
    /\ UNCHANGED scriptVars
    /\ UNCHANGED cacheVars

\* head of an iteration with attempt > 0: one call of BoostTipForTransactOpts,
\* which asks the network for tip and gas price
Boost ==
    /\ pc = "boost"
    /\ boosts' = boosts + 1
    /\ \/ \E newGasTip \in Suggestions, newFeeCap \in Suggestions :
             LET e == BoostError(opts, newGasTip, newFeeCap) IN
             /\ suggested' = [tip |-> newGasTip, feeCap |-> newFeeCap]
             /\ IF e = NoText
                THEN /\ opts' = BoostedOpts(opts, newGasTip, newFeeCap)
                     /\ pc' = "submit"
                     /\ ret' = ret
                ELSE /\ opts' = opts
                     /\ pc' = "done"
                     /\ ret' = Return(NoReceipt,
                                     Errorf("failed to boost gas tip for attempt %d: %w",
                                            attempt, e))
       \/ /\ suggested' = NoSuggestion
          /\ opts' = opts
          /\ pc' = "done"
          /\ ret' = Return(NoReceipt,
                          Errorf("failed to boost gas tip for attempt %d: %w", attempt,
                                 <<"failed to suggest gas tip cap and price">>))
    /\ UNCHANGED <<attempt, tx, err>>
    /\ UNCHANGED waitVars
    /\ UNCHANGED <<submits, lastSubmit, allKnown, allTimedOut, supplied>>
    /\ UNCHANGED chainVars
    /\ UNCHANGED scriptVars
    /\ UNCHANGED cacheVars

\* a callback that signs with the account's pending nonce instead of opts.Nonce
TxOfPendingNonce(a, o) ==
    [attempt |-> a, From |-> o.From, Nonce |-> o.Nonce + Cardinality(pool),
     Value |-> o.Value]

\* the transaction the callback signs and broadcasts from the options
TxOf(a, o) == [attempt |-> a, From |-> o.From, Nonce |-> o.Nonce, Value |-> o.Value]

\* tx, err = submitTx(ctx, opts) succeeded: the iteration makes its timeout
\* context and channels, starts the listener and reaches the select
SubmitOk ==
    /\ pc = "submit"
    /\ tx' = attempt
    /\ err' = NoText
    /\ timeoutCtx' = "active"
    /\ receiptChan' = NoReceipt
    /\ errChan' = NoText
    /\ listener' = [listener EXCEPT ![attempt] = "running"]
    /\ pc' = "select"
    /\ submits' = submits + 1
    /\ lastSubmit' = [tip |-> opts.GasTipCap, feeCap |-> opts.GasFeeCap]
    /\ allKnown' = FALSE
    /\ suggested' = NoSuggestion
    /\ pool' = pool \cup {TxOf(attempt, opts)}
    /\ included' = included
    /\ UNCHANGED <<attempt, opts, ret, boosts, allTimedOut, supplied>>
    /\ UNCHANGED scriptVars
    /\ UNCHANGED cacheVars

\* submitTx failed: "continue" on a soft error, return the wrapped error otherwise
SubmitFails ==
    /\ pc = "submit"
    /\ \E e \in SubmitErrors :
          /\ tx' = NoTx
          /\ err' = e
          /\ allKnown' = (allKnown /\ e = AlreadyKnown)
          /\ IF IsSoftSubmitError(e)
             THEN NextIteration
             ELSE /\ pc' = "done"
                  /\ attempt' = attempt
                  /\ ret' = Return(NoReceipt,
                                  Errorf("tx submission failed on attempt %d: %w",
                                         attempt, e))
    /\ submits' = submits + 1
    /\ lastSubmit' = [tip |-> opts.GasTipCap, feeCap |-> opts.GasFeeCap]
    /\ allTimedOut' = FALSE
    /\ suggested' = NoSuggestion
    /\ UNCHANGED <<opts, boosts, supplied>>
    /\ UNCHANGED waitVars
    /\ UNCHANGED chainVars
    /\ UNCHANGED scriptVars
    /\ UNCHANGED cacheVars

\* the 60 seconds of this iteration's timeout context pass
DeadlineElapses ==
    /\ pc = "select"
    /\ timeoutCtx = "active"
    /\ timeoutCtx' = "done"
    /\ UNCHANGED engineVars
    /\ UNCHANGED <<receiptChan, errChan, listener>>
    /\ UNCHANGED histVars
    /\ UNCHANGED chainVars
    /\ UNCHANGED scriptVars
    /\ UNCHANGED cacheVars

\* listener: bind.WaitMined returned the receipt of tx; offer it on receiptChan
WaitMinedReceipt ==
    /\ pc = "select"
    /\ listener[attempt] = "running"
    /\ \E status \in {0, 1} : receiptChan' = [tx |-> tx, Status |-> status]
    /\ listener' = [listener EXCEPT ![attempt] = "sendReceipt"]
    /\ UNCHANGED engineVars
    /\ UNCHANGED <<timeoutCtx, errChan>>
    /\ UNCHANGED histVars
    /\ UNCHANGED chainVars
    /\ UNCHANGED scriptVars
    /\ UNCHANGED cacheVars

\* errors bind.WaitMined can return: a chain client failure, or the
\* context's error once the timeout context is done
WaitErrors == {RPCFailure} \cup (IF timeoutCtx = "done" THEN {DeadlineExceeded} ELSE {})

\* listener: bind.WaitMined returned an error; offer it on errChan
WaitMinedErr ==
    /\ pc = "select"
    /\ listener[attempt] = "running"
    /\ \E e \in WaitErrors : errChan' = e
    /\ listener' = [listener EXCEPT ![attempt] = "sendErr"]
    /\ UNCHANGED engineVars
    /\ UNCHANGED <<timeoutCtx, receiptChan>>
    /\ UNCHANGED histVars
    /\ UNCHANGED chainVars
    /\ UNCHANGED scriptVars
    /\ UNCHANGED cacheVars

\* the receipt branch without its return: the loop goes on
SelectReceiptNoReturn ==
    /\ pc = "select"
    /\ receiptChan # NoReceipt
    /\ NextIteration
    /\ timeoutCtx' = "done"
    /\ receiptChan' = NoReceipt
    /\ listener' = [listener EXCEPT ![attempt] = "exited"]
    /\ UNCHANGED <<opts, tx, err, errChan>>
    /\ UNCHANGED histVars
    /\ UNCHANGED chainVars
    /\ UNCHANGED scriptVars
    /\ UNCHANGED cacheVars

\* case receipt := <-receiptChan
SelectReceipt ==
    /\ pc = "select"
    /\ receiptChan # NoReceipt
    /\ ret' = Return(receiptChan, NilErr)
    /\ pc' = "done"
    /\ timeoutCtx' = "done"
    /\ receiptChan' = NoReceipt
    /\ listener' = [listener EXCEPT ![attempt] = "exited"]
    /\ UNCHANGED <<attempt, opts, tx, err, errChan>>
    /\ UNCHANGED histVars
    /\ UNCHANGED chainVars
    /\ UNCHANGED scriptVars
    /\ UNCHANGED cacheVars

\* the error branch without its return: the loop goes on
SelectErrNoReturn ==
    /\ pc = "select"
    /\ errChan # NoText
    /\ NextIteration
    /\ timeoutCtx' = "done"
    /\ errChan' = NoText
    /\ listener' = [listener EXCEPT ![attempt] = "exited"]
    /\ UNCHANGED <<opts, tx, err, receiptChan>>
    /\ UNCHANGED histVars
    /\ UNCHANGED chainVars
    /\ UNCHANGED scriptVars
    /\ UNCHANGED cacheVars

\* case err := <-errChan
SelectErr ==
    /\ pc = "select"
    /\ errChan # NoText
    /\ ret' = Return(NoReceipt, Errorf("%w", -1, errChan))
    /\ pc' = "done"
    /\ timeoutCtx' = "done"
    /\ errChan' = NoText
    /\ listener' = [listener EXCEPT ![attempt] = "exited"]
    /\ UNCHANGED <<attempt, opts, tx, err, receiptChan>>
    /\ UNCHANGED histVars
    /\ UNCHANGED chainVars
    /\ UNCHANGED scriptVars
    /\ UNCHANGED cacheVars

\* "return nil, nil" in place of the exhaustion error
ExhaustedErrNil == [fmt |-> "nil", attempt |-> -1, cause |-> NoText]

ExhaustedErr == Errorf("tx not included after %d attempts", maxRetries, NoText)

\* the timeout branch going back into the same select instead of on
SelectTimeoutWaitsAgain ==
    /\ pc = "select"
    /\ timeoutCtx = "done"
    /\ timeoutCtx' = "none"
    /\ receiptChan' = NoReceipt
    /\ errChan' = NoText
    /\ listener' = [listener EXCEPT ![attempt] = "orphaned"]
    /\ UNCHANGED engineVars
    /\ UNCHANGED histVars
    /\ UNCHANGED chainVars
    /\ UNCHANGED scriptVars
    /\ UNCHANGED cacheVars

\* case <-timeoutCtx.Done(): the iteration ends; its channels go out of
\* scope with the listener still attached to them ("orphaned": inside
\* WaitMined under a cancelled context, or blocked in its send)
SelectTimeout ==
    /\ pc = "select"
    /\ timeoutCtx = "done"
    /\ IF IsLastAttempt(attempt)
       THEN /\ pc' = "done"
            /\ attempt' = attempt
            /\ ret' = Return(NoReceipt, ExhaustedErr)
       ELSE NextIteration
    /\ timeoutCtx' = "none"
    /\ receiptChan' = NoReceipt
    /\ errChan' = NoText
    /\ listener' = [listener EXCEPT ![attempt] = "orphaned"]
    /\ UNCHANGED <<opts, tx, err>>
    /\ UNCHANGED histVars
    /\ UNCHANGED chainVars
    /\ UNCHANGED scriptVars
    /\ UNCHANGED cacheVars

Next ==
    \/ CreateTransactOpts
    \/ Boost
    \/ SubmitOk
    \/ SubmitFails
    \/ DeadlineElapses
    \/ WaitMinedReceipt
    \/ WaitMinedErr
    \/ SelectReceipt
    \/ SelectErr
    \/ SelectTimeout

Spec == Init /\ [][Next]_vars


(* ---------------- the engine on a chain ---------------- *)

\* the chain takes one transaction per sender and nonce
ChainAccepts(t) ==
    \A u \in included : ~(u.From = t.From /\ u.Nonce = t.Nonce)

\* the chain includes one of the broadcast transactions in a block
IncludeTx ==
    /\ pc \in {"submit", "boost", "select", "done"}
    /\ \E t \in pool \ included :
          /\ ChainAccepts(t)
          /\ included' = included \cup {t}
    /\ pool' = pool
    /\ UNCHANGED engineVars
    /\ UNCHANGED waitVars
    /\ UNCHANGED histVars
    /\ UNCHANGED scriptVars
    /\ UNCHANGED cacheVars

\* a fee market with two answers: tip 0 with gas price FeeStep, and the
\* inverted pair, tip FeeStep with gas price 0
NarrowAnswers == {[tip |-> 0, feeCap |-> FeeStep], [tip |-> FeeStep, feeCap |-> 0]}

NarrowFees ==
    /\ (pc = "create" /\ pc' = "submit")
          => [tip |-> opts'.GasTipCap, feeCap |-> opts'.GasFeeCap] \in NarrowAnswers
    /\ suggested' # NoSuggestion => suggested' \in NarrowAnswers

NarrowCreateTransactOpts == CreateTransactOpts /\ NarrowFees

NarrowBoost == Boost /\ NarrowFees

\* bind.WaitMined finds a receipt only for a transaction the chain has included
ChainWaitMinedReceipt ==
    /\ \E t \in included : t.attempt = tx
    /\ WaitMinedReceipt

NextChain ==
    \/ NarrowCreateTransactOpts
    \/ NarrowBoost
    \/ SubmitOk
    \/ SubmitFails
    \/ DeadlineElapses
    \/ ChainWaitMinedReceipt
    \/ WaitMinedErr
    \/ SelectReceipt
    \/ SelectErr
    \/ SelectTimeout
    \/ IncludeTx

SpecChain == Init /\ [][NextChain]_vars

(* ---------------- the engine under fairness ---------------- *)

NextNarrow ==
    \/ NarrowCreateTransactOpts
    \/ NarrowBoost
    \/ SubmitOk
    \/ SubmitFails
    \/ DeadlineElapses
    \/ WaitMinedReceipt
    \/ WaitMinedErr
    \/ SelectReceipt
    \/ SelectErr
    \/ SelectTimeout

\* every call the engine makes returns and every wait ends: a step that can
\* be taken is taken
FairSpec == Init /\ [][NextNarrow]_vars /\ WF_vars(NextNarrow)

(* ---------------- the listeners left behind ---------------- *)

\* a left-over listener whose channels were made once, outside the loop: its
\* send arrives at the select of the running attempt
LeftoverListenerSharedChannels(a) ==
    /\ listener[a] = "orphaned"
    /\ pc = "select"
    /\ \E w \in {a, tx} :
          \/ /\ receiptChan' = [tx |-> w, Status |-> 1]
             /\ errChan' = errChan
          \/ /\ errChan' = DeadlineExceeded
             /\ receiptChan' = receiptChan
    /\ listener' = [listener EXCEPT ![a] = "blocked"]
    /\ UNCHANGED engineVars
    /\ timeoutCtx' = timeoutCtx
    /\ UNCHANGED histVars
    /\ UNCHANGED chainVars
    /\ UNCHANGED scriptVars
    /\ UNCHANGED cacheVars

\* the listener of an attempt whose select took the timeout goes on: it
\* calls bind.WaitMined with the value it finds in the shared variable tx
\* (its own handle, or what the engine has written there since: the read is
\* not ordered with the write of the next iteration; a nil handle makes
\* tx.Hash() panic and ends the process), gets the context error or a
\* receipt, and blocks for good in the send on the channel of its own
\* iteration, which has no receiver left
LeftoverListener(a) ==
    /\ listener[a] = "orphaned"
    /\ pc # "crashed"
    /\ \E w \in {a, tx} :
          IF w = NoTx
          THEN /\ listener' = [listener EXCEPT ![a] = "panicked"]
               /\ pc' = "crashed"
          ELSE /\ listener' = [listener EXCEPT ![a] = "blocked"]
               /\ pc' = pc
    /\ UNCHANGED <<attempt, opts, tx, err, ret>>
    /\ UNCHANGED <<timeoutCtx, receiptChan, errChan>>
    /\ UNCHANGED histVars
    /\ UNCHANGED chainVars
    /\ UNCHANGED scriptVars
    /\ UNCHANGED cacheVars

Leftover == \E a \in Attempts : LeftoverListener(a)

NextListeners ==
    \/ NarrowCreateTransactOpts
    \/ NarrowBoost
    \/ SubmitOk
    \/ SubmitFails
    \/ DeadlineElapses
    \/ WaitMinedReceipt
    \/ WaitMinedErr
    \/ SelectReceipt
    \/ SelectErr
    \/ SelectTimeout
    \/ Leftover

SpecListeners == Init /\ [][NextListeners]_vars

(* ---------------- the batch scripts ---------------- *)

NonceTooLow == <<"nonce", "too", "low">>

\* the fixed words of an error format
FormatWords(f) ==
    CASE f = "tx submission failed on attempt %d: %w"
            -> <<"tx", "submission", "failed", "on", "attempt">>
      [] f = "failed to boost gas tip for attempt %d: %w"
            -> <<"failed", "to", "boost", "gas", "tip", "for", "attempt">>
      [] f = "tx not included after %d attempts"
            -> <<"tx", "not", "included", "after", "attempts">>
      [] f = "%w" -> <<>>
      [] OTHER -> <<f>>

\* err.Error(): the words of the format followed by those of the wrapped error
ErrorText(e) == FormatWords(e.fmt) \o e.cause

\* every script taking "nonce too low" for an inclusion
TakesNonceTooLowAnywhere(s) == TRUE

\* no script taking "nonce too low" for an inclusion
TakesNonceTooLowNowhere(s) == FALSE

\* the scripts whose error branch tests strings.Contains(err.Error(), "nonce too low")
TakesNonceTooLow(s) == s \in {"migrate", "holesky-migrate", "unstake"}

\* &types.Receipt{Status: 1, BlockNumber: big.NewInt(0)}
SyntheticReceipt == [Status |-> 1, BlockNumber |-> 0]

\* a script that goes on whatever the engine returned
StopsNever(s, fatal, r) == FALSE

\* log.Fatalf on an error that is not taken for an inclusion, os.Exit(1) on a
\* receipt of status 0; holesky-migrate prints such a receipt and continues
Stops(s, fatal, r) == fatal \/ (s # "holesky-migrate" /\ r.Status = 0)

\* the script after WaitMinedWithRetry returned: error branch, status test,
\* and the head of the loop for the next batch, whose invocation starts with
\* fresh bookkeeping
HandleResult ==
    /\ script \in Scripts
    /\ spc = "running"
    /\ pc = "done"
    /\ LET tooLow == /\ ret.err # NilErr
                      /\ TakesNonceTooLow(script)
                      /\ Contains(ErrorText(ret.err), NonceTooLow)
           fatal == ret.err # NilErr /\ ~tooLow
           r == IF tooLow THEN SyntheticReceipt ELSE ret.receipt
       IN  /\ receipt' = IF fatal THEN receipt ELSE r
           /\ IF Stops(script, fatal, r)
              THEN /\ spc' = "halted"
                   /\ idx' = idx
                   /\ UNCHANGED <<engineVars, waitVars, histVars, chainVars>>
              ELSE IF idx < Len(batches)
                   THEN /\ spc' = "running"
                        /\ idx' = idx + 1
                        /\ pc' = "create"
                        /\ attempt' = 0
                        /\ opts' = NoOpts
                        /\ tx' = NoTx
                        /\ err' = NoText
                        /\ timeoutCtx' = "none"
                        /\ receiptChan' = NoReceipt
                        /\ errChan' = NoText
                        /\ listener' = [a \in Attempts |-> "none"]
                        /\ ret' = NoRet
                        /\ submits' = 0
                        /\ boosts' = 0
                        /\ lastSubmit' = NoSubmit
                        /\ allKnown' = TRUE
                        /\ allTimedOut' = TRUE
                        /\ suggested' = NoSuggestion
                        /\ supplied' = Frame(NoOpts)
                        /\ pool' = {}
                        /\ included' = {}
                   ELSE /\ spc' = "completed"
                        /\ idx' = idx
                        /\ UNCHANGED <<engineVars, waitVars, histVars, chainVars>>
    /\ UNCHANGED <<script, batches>>
    /\ UNCHANGED cacheVars

\* a script has read its keys, built its batches and is at the first one
InitScript ==
    /\ EngineStart
    /\ script \in Scripts
    /\ \E keys \in {batchSize, MaxKeys} : batches = Batches(script, keys)
    /\ idx = 1
    /\ spc = "running"
    /\ receipt = NoReceipt
    /\ duties = NewDutiesCache
    /\ call = NoCall

NextScript ==
    \/ NarrowCreateTransactOpts
    \/ NarrowBoost
    \/ SubmitOk
    \/ SubmitFails
    \/ DeadlineElapses
    \/ WaitMinedReceipt
    \/ WaitMinedErr
    \/ SelectReceipt
    \/ SelectErr
    \/ SelectTimeout
    \/ HandleResult

SpecScript == InitScript /\ [][NextScript]_vars

(* ---------------- DutiesCache ---------------- *)

\* the duties a beacon node can answer with
DutySet ==
    { [Pubkey |-> "a", Slot |-> "1"],
      [Pubkey |-> "a", Slot |-> "2"],
      [Pubkey |-> "b", Slot |-> "1"] }

\* the sequences over S of length at most n
RECURSIVE SeqsUpTo(_, _)
SeqsUpTo(S, n) ==
    IF n = 0
    THEN {<<>>}
    ELSE SeqsUpTo(S, n - 1)
            \cup {Append(q, x) : q \in {r \in SeqsUpTo(S, n - 1) : Len(r) = n - 1}, x \in S}

\* a *ProposerDutiesResponse: the nil pointer, or a response with its Data
NilResponse == [nil |-> TRUE, Data |-> <<>>]
Responses ==
    {NilResponse} \cup {[nil |-> FALSE, Data |-> q] : q \in SeqsUpTo(DutySet, MaxDuties)}

\* the loop that copies Pubkey and Slot of every element of Data into a
\* slice made with make([]ProposerDuty, 0, len(Data)); nil for a nil response
Convert(d) ==
    IF d.nil
    THEN NilSlice
    ELSE Slice([i \in 1..Len(d.Data) |->
                   [Pubkey |-> d.Data[i].Pubkey, Slot |-> d.Data[i].Slot]])

\* c.duties after Store(epoch, d)
Stored(c, epoch, d) ==
    [c EXCEPT ![epoch] = [present |-> TRUE, slice |-> Convert(d)]]

\* Get(epoch): duties, ok
Get(c, epoch) == [duties |-> c[epoch].slice, ok |-> c[epoch].present]

\* reflect.DeepEqual on two slices: a nil slice equals only a nil slice;
\* otherwise same length and equal elements, position by position
DeepEqual(a, b) ==
    /\ a.nil = b.nil
    /\ Len(a.elems) = Len(b.elems)
    /\ \A i \in 1..Len(a.elems) : a.elems[i] = b.elems[i]

\* what CompareAndUpdate(epoch, d) returns on the map c
Changed(c, epoch, d) ==
    LET old == Get(c, epoch)
        newDutiesList == Convert(d)
    IN  IF ~old.ok THEN FALSE ELSE ~DeepEqual(old.duties, newDutiesList)

Store ==
    \E epoch \in Epochs, d \in Responses :
        /\ duties' = Stored(duties, epoch, d)
        /\ call' = [op |-> "Store", epoch |-> epoch, arg |-> d, before |-> duties,
                    result |-> FALSE]
        /\ UNCHANGED <<engineVars, waitVars, histVars, chainVars, scriptVars>>

CompareAndUpdate ==
    \E epoch \in Epochs, d \in Responses :
        /\ duties' = Stored(duties, epoch, d)
        /\ call' = [op |-> "CompareAndUpdate", epoch |-> epoch, arg |-> d,
                    before |-> duties, result |-> Changed(duties, epoch, d)]
        /\ UNCHANGED <<engineVars, waitVars, histVars, chainVars, scriptVars>>

NextCache ==
    \/ Store
    \/ CompareAndUpdate

SpecCache == Init /\ [][NextCache]_vars

TypeOK ==
    /\ pc \in {"create", "fatal", "boost", "submit", "select", "done", "crashed"}
    /\ attempt \in 0..maxRetries
    /\ submits \in 0..maxRetries
    /\ boosts \in 0..maxRetries

(* ---------------- properties ---------------- *)

\* after WaitMinedWithRetry has returned it calls nothing any more
ReturnedIsFinal ==
    pc = "done" => (submits' = submits /\ boosts' = boosts /\ listener' = listener)

\* C1: when the first submission succeeded and its listener hands over a
\* receipt while the 60-second context is still running, the engine returns
\* exactly that receipt with a nil error, after one submission and no boost,
\* and calls nothing afterwards.
C1_FirstAttemptReceipt ==
    [][ /\ ( ( /\ attempt = 0
               /\ pc = "select"
               /\ timeoutCtx = "active"
               /\ listener[0] = "sendReceipt"
               /\ listener'[0] = "exited" )
             => ( /\ pc' = "done"
                  /\ ret'.returned
                  /\ ret'.receipt = receiptChan
                  /\ ret'.receipt.tx = 0
                  /\ ret'.err = NilErr
                  /\ submits' = 1
                  /\ boosts' = 0 ) )
        /\ ReturnedIsFinal ]_vars

C1_Witness ==
    /\ pc = "done"
    /\ attempt = 0
    /\ listener[0] = "exited"
    /\ ret.receipt.tx = 0
    /\ ret.err = NilErr
    /\ submits = 1
    /\ boosts = 0

\* C2: in every execution the submission callback is called at most 10
\* times and BoostTipForTransactOpts at most 9 times.
C2_BoundedCalls == submits <= 10 /\ boosts <= 9

C2_Witness == submits = 10 /\ boosts = 9 /\ pc = "done"

\* C3: a submission that fails with a text containing "replacement
\* transaction underpriced" or "already known" starts no inclusion wait (no
\* timeout context, no channel, no listener), uses up one attempt of the
\* budget, is not returned as the submission error, and while budget remains
\* the engine goes straight on to the next attempt.
C3_SoftSubmitError ==
    [][ ( /\ pc = "submit"
          /\ submits' = submits + 1
          /\ (Contains(err', Underpriced) \/ Contains(err', AlreadyKnown)) )
        => ( /\ listener' = listener
             /\ timeoutCtx' = timeoutCtx
             /\ receiptChan' = receiptChan
             /\ errChan' = errChan
             /\ attempt' = attempt + 1
             /\ ret'.err.fmt # "tx submission failed on attempt %d: %w"
             /\ ret'.err.cause # err'
             /\ (attempt + 1 < 10 => (pc' = "boost" /\ ~ret'.returned)) ) ]_vars

C3_Witness ==
    /\ pc = "boost"
    /\ attempt = 2
    /\ submits = 2
    /\ Contains(err, AlreadyKnown)
    /\ err # AlreadyKnown
    /\ listener[0] = "none"
    /\ listener[1] = "none"
    /\ ~ret.returned

\* C4: a submission that fails with any other error makes the engine return
\* an error wrapping it at once: no inclusion wait is started, no boost and
\* no submission follow, and on the first attempt no boost was ever made.
C4_FatalSubmitError ==
    [][ /\ ( ( /\ pc = "submit"
               /\ submits' = submits + 1
               /\ err' # NoText
               /\ ~Contains(err', Underpriced)
               /\ ~Contains(err', AlreadyKnown) )
             => ( /\ pc' = "done"
                  /\ ret'.returned
                  /\ ret'.receipt = NoReceipt
                  /\ ret'.err.fmt = "tx submission failed on attempt %d: %w"
                  /\ ret'.err.attempt = attempt
                  /\ ret'.err.cause = err'
                  /\ listener' = listener
                  /\ timeoutCtx' = timeoutCtx
                  /\ boosts' = boosts
                  /\ (attempt = 0 => boosts' = 0) ) )
        /\ (pc = "done" => (submits' = submits /\ boosts' = boosts)) ]_vars

C4_Witness ==
    /\ pc = "done"
    /\ attempt = 0
    /\ submits = 1
    /\ boosts = 0
    /\ ret.err.cause = <<"failed", "to", "stake", "nonce", "too", "low">>
    /\ \A a \in Attempts : listener[a] = "none"

\* a second reachable case of C4: the fatal error comes on a later attempt
C4_WitnessLater ==
    /\ pc = "done"
    /\ attempt = 3
    /\ ret.err.attempt = 3
    /\ ret.err.cause = <<"known", "already">>

\* C5: when the listener of the running attempt hands over an error on its
\* error channel, the engine returns that error, on whatever attempt, and
\* makes no boost and no submission afterwards.
C5_WaitError ==
    [][ /\ ( ( /\ pc = "select"
               /\ listener[attempt] = "sendErr"
               /\ listener'[attempt] = "exited" )
             => ( /\ pc' = "done"
                  /\ ret'.returned
                  /\ ret'.receipt = NoReceipt
                  /\ ret'.err.cause = errChan
                  /\ ret'.err.fmt = "%w"
                  /\ submits' = submits
                  /\ boosts' = boosts ) )
        /\ (pc = "done" => (boosts' = boosts /\ submits' = submits)) ]_vars

C5_Witness ==
    /\ pc = "done"
    /\ attempt = 4
    /\ listener[4] = "exited"
    /\ ret.err.fmt = "%w"
    /\ ret.err.cause = RPCFailure

\* C6: when the select of an attempt takes the expired deadline, attempt
\* index 9 makes the engine return "tx not included after 10 attempts";
\* any earlier attempt is followed by the next one, which calls the boost
\* before it calls the submission callback again.
C6_Timeout ==
    [][ /\ ( ( /\ pc = "select"
               /\ timeoutCtx = "done"
               /\ timeoutCtx' = "none" )
             => IF attempt = 9
                THEN /\ pc' = "done"
                     /\ ret'.returned
                     /\ ret'.receipt = NoReceipt
                     /\ ret'.err = [fmt |-> "tx not included after %d attempts",
                                    attempt |-> 10, cause |-> NoText]
                ELSE /\ pc' = "boost"
                     /\ attempt' = attempt + 1
                     /\ ~ret'.returned )
        /\ (pc = "boost" => (submits' = submits /\ boosts' = boosts + 1))
        /\ ((submits' = submits + 1 /\ attempt > 0) => boosts = attempt) ]_vars

C6_WitnessExhausted ==
    /\ pc = "done"
    /\ attempt = 9
    /\ listener[9] = "orphaned"
    /\ ret.err.fmt = "tx not included after %d attempts"

C6_Witness ==
    /\ pc = "select"
    /\ attempt = 1
    /\ listener[0] = "orphaned"
    /\ boosts = 1
    /\ submits = 2

\* C7: with a callback that always fails with "already known" (and boosts
\* that succeed) the engine calls it exactly 10 times, starts no inclusion
\* wait and returns the error "tx not included after 10 attempts".
C7_AlwaysAlreadyKnown ==
    ( /\ pc = "done"
      /\ allKnown
      /\ ret.err.fmt # "failed to boost gas tip for attempt %d: %w" )
    => ( /\ submits = 10
         /\ \A a \in Attempts : listener[a] = "none"
         /\ ret.err = [fmt |-> "tx not included after %d attempts",
                       attempt |-> 10, cause |-> NoText] )

\* C8: when every submission succeeds and the wait times out on attempts
\* 0..8 and hands over a receipt on attempt 9, the engine has made exactly
\* 10 submissions and 9 boosts, one before each resubmission, and returns
\* the receipt of attempt 9 with a nil error.
C8_ReceiptOnLastAttempt ==
    /\ ( ( /\ pc = "done"
           /\ allTimedOut
           /\ attempt = 9
           /\ listener[9] = "exited"
           /\ ret.err = NilErr )
         => ( /\ submits = 10
              /\ boosts = 9
              /\ ret.receipt.tx = 9
              /\ ret.receipt.Status \in {0, 1}
              /\ \A a \in 0..8 : listener[a] = "orphaned" ) )
    /\ ( (allTimedOut /\ pc = "submit") => (submits = attempt /\ boosts = attempt) )
    /\ ( (allTimedOut /\ pc = "boost") => (submits = attempt /\ boosts = attempt - 1) )

C8_Witness ==
    /\ pc = "done"
    /\ allTimedOut
    /\ attempt = 9
    /\ listener[9] = "exited"
    /\ ret.err = NilErr
    /\ ret.receipt.tx = 9
    /\ submits = 10
    /\ boosts = 9

\* C9: every call of the submission callback after the first is made with a
\* strictly larger tip and a strictly larger fee cap than the call before
\* it, whether that one ended in a timeout or in a soft submission error.
C9_StrictlyIncreasingFees ==
    [][ (submits' = submits + 1 /\ submits >= 1)
        => ( /\ opts.GasTipCap > lastSubmit.tip
             /\ opts.GasFeeCap > lastSubmit.feeCap ) ]_vars

C9_Witness ==
    /\ submits = 3
    /\ listener[0] = "orphaned"
    /\ listener[1] = "none"
    /\ lastSubmit.tip = 2
    /\ lastSubmit.feeCap = 4

\* C10: after every call of BoostTipForTransactOpts that returns nil the
\* options hold fee cap >= tip >= 0, and even fee cap - tip >= 1.
C10_FeeCapAboveTip ==
    [][ (boosts' = boosts + 1 /\ pc' = "submit")
        => ( /\ opts'.GasTipCap >= 0
             /\ opts'.GasFeeCap >= opts'.GasTipCap
             /\ opts'.GasFeeCap - opts'.GasTipCap >= 1 ) ]_vars

C10_Witness ==
    /\ pc = "submit"
    /\ boosts = 2
    /\ opts.GasTipCap = 9
    /\ opts.GasFeeCap = 11

\* C11: a boost that returns nil leaves a tip t with t >= p + floor(p/10) + 1
\* for the previous tip p, whatever tip the network suggests; so t > p and
\* t > 0, also for p = 0 with a suggested tip of 0.
C11_TipBoostedByTenPercent ==
    [][ (boosts' = boosts + 1 /\ pc' = "submit")
        => ( /\ opts.GasTipCap >= 0
             /\ opts'.GasTipCap >= opts.GasTipCap + (opts.GasTipCap \div 10) + 1
             /\ opts'.GasTipCap > opts.GasTipCap
             /\ opts'.GasTipCap > 0 ) ]_vars

\* the previous tip above the suggested one and large enough for floor(p/10) >= 1
C11_Witness ==
    /\ pc = "submit"
    /\ boosts = 4
    /\ lastSubmit.tip = 10
    /\ opts.GasTipCap = 12

\* previous tip 0 and suggested tip 0
C11_WitnessZero ==
    /\ pc = "submit"
    /\ boosts = 1
    /\ lastSubmit.tip = 0
    /\ opts.GasTipCap = 1

\* C12: when the network suggests a fee cap below the suggested tip, or the
\* previous attempt's fee cap is below its tip, BoostTipForTransactOpts
\* returns an error and computes no boosted fees, and WaitMinedWithRetry
\* returns that error wrapped, without another submission.
C12_NegativeBaseFeeRejected ==
    [][ /\ ( ( /\ pc = "boost"
               /\ boosts' = boosts + 1
               /\ suggested' # NoSuggestion
               /\ \/ suggested'.feeCap < suggested'.tip
                  \/ opts.GasFeeCap < opts.GasTipCap )
             => ( /\ pc' = "done"
                  /\ ret'.returned
                  /\ ret'.receipt = NoReceipt
                  /\ ret'.err.fmt = "failed to boost gas tip for attempt %d: %w"
                  /\ ret'.err.attempt = attempt
                  /\ ret'.err.cause =
                        IF suggested'.feeCap < suggested'.tip
                        THEN <<"new base fee cannot be negative">>
                        ELSE <<"base fee cannot be negative">>
                  /\ opts' = opts
                  /\ submits' = submits ) )
        /\ (pc = "done" => submits' = submits) ]_vars

\* the suggested fee cap is below the suggested tip
C12_Witness ==
    /\ pc = "done"
    /\ suggested.feeCap < suggested.tip
    /\ opts.GasFeeCap >= opts.GasTipCap
    /\ ret.err.cause = <<"new base fee cannot be negative">>
    /\ attempt = 2
    /\ submits = 2

\* the previous attempt's fee cap is below its tip
C12_WitnessPrevious ==
    /\ pc = "done"
    /\ suggested.feeCap >= suggested.tip
    /\ suggested # NoSuggestion
    /\ opts.GasFeeCap < opts.GasTipCap
    /\ ret.err.cause = <<"base fee cannot be negative">>
    /\ attempt = 1
    /\ submits = 1

\* C13: every call of the submission callback carries the nonce, the gas
\* limit, the value and the sender the caller supplied; no step of the
\* engine or of the boost changes anything of the options but tip and fee cap.
C13_OnlyFeesChange ==
    [][ /\ (submits' = submits + 1 => Frame(opts) = supplied)
        /\ (pc # "create" => Frame(opts') = Frame(opts)) ]_vars

C13_Witness ==
    /\ submits = 4
    /\ boosts = 3
    /\ pc = "select"
    /\ opts.GasTipCap > 3
    /\ supplied = [From |-> "sender", Nonce |-> 1, Value |-> 1, GasLimit |-> 3000000]
    /\ Frame(opts) = supplied

\* the attempts whose listener goroutine has been started and has not returned
LiveListeners == {a \in Attempts : listener[a] \notin {"none", "exited"}}

\* C14: the boost and the submission of attempt N+1 begin only after the
\* inclusion wait of attempt N has ended, and at no point are the listeners
\* of two attempts both still running.
C14_OneListenerAtATime ==
    /\ (pc \in {"boost", "submit"}
           => (timeoutCtx = "none" /\ receiptChan = NoReceipt /\ errChan = NoText))
    /\ Cardinality(LiveListeners) <= 1

\* the kinds of result of WaitMinedWithRetry
IsFatalSubmissionError(r) ==
    /\ r.receipt = NoReceipt
    /\ r.err.fmt = "tx submission failed on attempt %d: %w"
    /\ r.err.cause \in SubmitErrors

IsConfirmationError(r) ==
    /\ r.receipt = NoReceipt
    /\ r.err.fmt = "%w"
    /\ r.err.cause \in {RPCFailure, DeadlineExceeded}

IsExhaustedError(r) ==
    /\ r.receipt = NoReceipt
    /\ r.err = [fmt |-> "tx not included after %d attempts", attempt |-> 10,
                cause |-> NoText]

IsReceiptResult(r) ==
    /\ r.receipt.tx \in 0..9
    /\ r.receipt.Status \in {0, 1}
    /\ r.err = [fmt |-> "nil", attempt |-> -1, cause |-> NoText]

IsBoostError(r) ==
    /\ r.receipt = NoReceipt
    /\ r.err.fmt = "failed to boost gas tip for attempt %d: %w"
    /\ r.err.cause # NoText

IsFallThroughError(r) ==
    /\ r.receipt = NoReceipt
    /\ r.err.fmt = "unexpected error: control flow should not reach end of WaitMinedWithRetry"

Count(b) == IF b THEN 1 ELSE 0

\* C15 as stated: every return of WaitMinedWithRetry is exactly one of
\* (a) a fatal submission error, (b) a fatal confirmation error, (c) the
\* exhausted-retries error, (d) a receipt with nil error.
C15_FourOutcomes ==
    ret.returned
       => ( Count(IsFatalSubmissionError(ret)) + Count(IsConfirmationError(ret))
            + Count(IsExhaustedError(ret)) + Count(IsReceiptResult(ret)) = 1 )

\* C15 amended: every return of WaitMinedWithRetry is exactly one of (a) a
\* fatal submission error, (b) a fatal confirmation error, (c) the
\* exhausted-retries error, (d) a receipt with nil error, (e) an error
\* wrapping a failed fee boost, (f) the "unexpected error: control flow
\* should not reach end of WaitMinedWithRetry" error; and the engine has
\* returned exactly when it has stopped.
C15_SixOutcomes ==
    /\ (ret.returned <=> pc = "done")
    /\ ret.returned
          => ( Count(IsFatalSubmissionError(ret)) + Count(IsConfirmationError(ret))
               + Count(IsExhaustedError(ret)) + Count(IsReceiptResult(ret))
               + Count(IsBoostError(ret)) + Count(IsFallThroughError(ret)) = 1 )

\* the engine has returned the error of a failed boost
C15_Witness ==
    /\ ret.returned
    /\ IsBoostError(ret)
    /\ ret.err.attempt = 3
    /\ boosts = 3
    /\ submits = 3

\* the engine has returned the fall-through error
C15_WitnessFallThrough ==
    /\ ret.returned
    /\ IsFallThroughError(ret)
    /\ submits = 10
    /\ listener[4] = "orphaned"

\* C16: on a chain that takes one transaction per sender and nonce, at most
\* one of the transactions the attempts of an invocation have broadcast is
\* ever included, so the value of the intent is transferred at most once.
C16_IncludedAtMostOnce ==
    /\ included \subseteq pool
    /\ Cardinality(included) <= 1
    /\ \A t \in included : \A u \in pool : (u.From = t.From /\ u.Nonce = t.Nonce)
    /\ \A t \in included : t.Value = supplied.Value

\* four transactions broadcast, the third one included, the engine back
C16_Witness ==
    /\ pc = "done"
    /\ Cardinality(pool) = 4
    /\ \E t \in included : t.attempt = 2
    /\ Cardinality(included) = 1

\* the attempt of the most recent submission that succeeded
LastSubmitted == CHOOSE a \in {t.attempt : t \in pool} : \A t \in pool : t.attempt <= a

\* C17: what the listener of attempt N delivers reaches only the select of
\* attempt N: whatever the select of the running attempt is offered comes from
\* that attempt's own listener, the engine returns from a wait only by that
\* listener's delivery or by the attempt's own deadline, and a receipt it
\* returns is the receipt of the most recent successful submission.
C17_OwnListenerOnly ==
    [][ /\ (receiptChan' # NoReceipt
               => (listener'[attempt'] = "sendReceipt" /\ receiptChan'.tx = attempt'))
        /\ (errChan' # NoText => listener'[attempt'] = "sendErr")
        /\ ((pc = "select" /\ ret'.returned)
               => \/ (listener[attempt] = "sendReceipt" /\ listener'[attempt] = "exited")
                  \/ (listener[attempt] = "sendErr" /\ listener'[attempt] = "exited")
                  \/ (timeoutCtx = "done" /\ attempt = 9))
        /\ (ret'.receipt # NoReceipt
               => (ret'.receipt.tx = LastSubmitted /\ ret'.receipt.tx = tx)) ]_vars

\* a receipt is returned on attempt 3 while listeners of earlier attempts
\* are still blocked in their sends
C17_Witness ==
    /\ pc = "done"
    /\ attempt = 3
    /\ ret.receipt.tx = 3
    /\ listener[0] = "blocked"
    /\ listener[1] = "none"
    /\ listener[2] = "orphaned"
    /\ listener[3] = "exited"

\* a left-over listener has read a later handle: here the nil one, after a
\* failed submission
C17_WitnessLateRead ==
    /\ pc = "crashed"
    /\ attempt = 2
    /\ listener[0] = "panicked"
    /\ tx = NoTx

\* C18: every transaction the engine submits, that of attempt 0 built by
\* CreateTransactOpts included, carries fee cap >= tip >= 0.
C18_SubmittedFeesOrdered ==
    [][ submits' = submits + 1
        => (opts.GasFeeCap >= opts.GasTipCap /\ opts.GasTipCap >= 0) ]_vars

\* C19: for a previous tip p and fee cap c with c >= p and a suggested tip s
\* and fee cap g with g >= s, a boost that returns nil sets the tip to
\* m + floor(m/10) + 1 with m = max(s, p) and the fee cap to
\* b + floor(b/10) + 1 + tip with b = max(g - s, c - p).
C19_BoostFormula ==
    [][ ( /\ boosts' = boosts + 1
          /\ pc' = "submit" )
        => LET p == opts.GasTipCap
               c == opts.GasFeeCap
               s0 == suggested'.tip
               g == suggested'.feeCap
               m == IF s0 >= p THEN s0 ELSE p
               b == IF g - s0 >= c - p THEN g - s0 ELSE c - p
               t == m + (m \div 10) + 1
           IN  /\ c >= p
               /\ g >= s0
               /\ opts'.GasTipCap = t
               /\ opts'.GasFeeCap = b + (b \div 10) + 1 + t ]_vars

\* previous base fee above the suggested one, suggested tip above the previous
C19_Witness ==
    /\ pc = "submit"
    /\ boosts = 2
    /\ lastSubmit = [tip |-> 1, feeCap |-> 9]
    /\ suggested = [tip |-> 7, feeCap |-> 7]
    /\ opts.GasTipCap = 8
    /\ opts.GasFeeCap = 17

\* C20: every invocation of WaitMinedWithRetry eventually returns, when every
\* fee-suggestion and submission call returns and every inclusion wait ends
\* with a receipt, an error or the timeout; nothing from outside has to
\* cancel it.
C20_EventuallyReturns ==
    (pc = "submit" /\ submits = 0) ~> (pc = "done" /\ ret.returned)

\* an invocation that used all its attempts has returned
C20_Witness ==
    /\ pc = "done"
    /\ ret.returned
    /\ attempt = 9
    /\ submits = 10
    /\ boosts = 9

\* the script acts on what the engine returned
ScriptHandles ==
    /\ script \in Scripts
    /\ spc = "running"
    /\ pc = "done"
    /\ <<idx, spc>>' # <<idx, spc>>

\* C21 as stated: in stake, migrate, holesky-migrate and unstake, whenever
\* WaitMinedWithRetry returns an error the script halts and submits no
\* further batch.
C21_HaltsOnAnyError ==
    [][ /\ (ScriptHandles /\ ret.err # NilErr)
              => (spc' = "halted" /\ idx' = idx /\ submits' = submits)
        /\ (spc = "halted" => (idx' = idx /\ submits' = submits /\ spc' = spc)) ]_vars

\* C21 amended: whenever WaitMinedWithRetry returns an error the script halts
\* and submits no further batch, unless the script is migrate,
\* holesky-migrate or unstake and the text of the error contains
\* "nonce too low"; stake halts on every error.
C21_HaltsOnErrorButNonceTooLow ==
    [][ /\ ( /\ ScriptHandles
             /\ ret.err # NilErr
             /\ ~( /\ script \in {"migrate", "holesky-migrate", "unstake"}
                   /\ Contains(ErrorText(ret.err), <<"nonce", "too", "low">>) ) )
              => (spc' = "halted" /\ idx' = idx /\ submits' = submits)
        /\ (spc = "halted" => (idx' = idx /\ submits' = submits /\ spc' = spc)) ]_vars

\* migrate has halted in its second batch on the exhausted-retries error
C21_Witness ==
    /\ script = "migrate"
    /\ spc = "halted"
    /\ idx = 2
    /\ IsExhaustedError(ret)

\* stake has halted on a "nonce too low" submission error
C21_WitnessStake ==
    /\ script = "stake"
    /\ spc = "halted"
    /\ IsFatalSubmissionError(ret)
    /\ Contains(ErrorText(ret.err), <<"nonce", "too", "low">>)

\* C22: in migrate, holesky-migrate and unstake, when the engine returns an
\* error whose text contains "nonce too low", the script makes up a receipt
\* with Status 1 and BlockNumber 0 in the same step, without any call to the
\* chain, takes the batch for included and goes on to the next batch (or
\* completes after the last one).
C22_NonceTooLowTakenForIncluded ==
    [][ ( /\ ScriptHandles
          /\ script \in {"migrate", "holesky-migrate", "unstake"}
          /\ ret.err # NilErr
          /\ Contains(ErrorText(ret.err), <<"nonce", "too", "low">>) )
        => ( /\ receipt' = [Status |-> 1, BlockNumber |-> 0]
             /\ IF idx < Len(batches)
                THEN /\ spc' = "running"
                     /\ idx' = idx + 1
                     /\ pc' = "create"
                     /\ submits' = 0
                ELSE /\ spc' = "completed"
                     /\ idx' = idx
                     /\ submits' = submits ) ]_vars

\* holesky-migrate is at its second batch with the made-up receipt for the first
C22_Witness ==
    /\ script = "holesky-migrate"
    /\ spc = "running"
    /\ idx = 2
    /\ pc = "create"
    /\ receipt = [Status |-> 1, BlockNumber |-> 0]

\* unstake has completed on the made-up receipt
C22_WitnessUnstake ==
    /\ script = "unstake"
    /\ spc = "completed"
    /\ ret.err.cause = <<"failed", "to", "stake", "nonce", "too", "low">>
    /\ receipt = [Status |-> 1, BlockNumber |-> 0]

\* C23: a script goes on to its next batch only when the engine returned a
\* receipt of success status for the current one, and a receipt of status 0
\* stops the script: it submits no further batch.
C23_ProceedsOnSuccessOnly ==
    [][ /\ ( (script \in Scripts /\ idx' = idx + 1)
                => (IsReceiptResult(ret) /\ ret.receipt.Status = 1) )
        /\ ( (ScriptHandles /\ IsReceiptResult(ret) /\ ret.receipt.Status = 0)
                => (spc' = "halted" /\ idx' = idx /\ submits' = submits) ) ]_vars

\* C24: in stake the batches are processed one after another: the options
\* of batch k+1 are built (pending nonce and fees fetched) and its first
\* submission made only after the engine invocation for batch k has returned
\* a receipt; while an invocation has not returned the script stays at its
\* batch, so no two invocations overlap.
C24_StakeBatchesSequential ==
    [][ script = "stake"
        => /\ (idx' # idx
                  => /\ idx' = idx + 1
                     /\ pc = "done"
                     /\ ret.returned
                     /\ IsReceiptResult(ret)
                     /\ receipt' = ret.receipt
                     /\ pc' = "create"
                     /\ submits' = 0 )
           /\ ((idx > 1 /\ pc = "create" /\ pc' = "submit")
                  => (IsReceiptResult([receipt |-> receipt, err |-> NilErr])
                      /\ submits = 0))
           /\ (submits' = submits + 1 => (idx' = idx /\ spc = "running")) ]_vars

\* stake is inside the invocation for its second batch, at the third attempt
C24_Witness ==
    /\ script = "stake"
    /\ idx = 2
    /\ pc = "select"
    /\ attempt = 2
    /\ receipt.Status = 1
    /\ receipt.tx = 4

\* C29: in stake, every submission of a batch attaches the per-validator
\* amount of 3.1 ether (31000 units of 10^14 wei) times the number of public
\* keys in that batch, a final batch of fewer than 20 keys included.
C29_StakeValuePerKey ==
    [][ (script = "stake" /\ submits' = submits + 1)
        => opts.Value = 31000 * batches[idx] ]_vars

\* C25: when a transaction an attempt of the invocation has broadcast is
\* included on the chain before WaitMinedWithRetry returns, what it returns
\* is a receipt and no error.
C25_IncludedGivesReceipt ==
    [][ (~ret.returned /\ ret'.returned /\ included # {})
        => IsReceiptResult(ret') ]_vars

\* C26: the expiry of the 60-second deadline never comes back as a
\* confirmation error: when the listener offers the deadline-exceeded error of
\* its wait, the select still leaves by its timeout branch (next attempt, or
\* the exhausted-retries error on the last one), and no error the engine
\* returns wraps "context deadline exceeded".
C26_DeadlineTakesTimeoutBranch ==
    [][ /\ ((pc = "select" /\ errChan = <<"context", "deadline", "exceeded">>
                /\ pc' # "select")
               => IF attempt = 9
                  THEN IsExhaustedError(ret')
                  ELSE (~ret'.returned /\ attempt' = attempt + 1))
        /\ (ret'.returned => ret'.err.cause # <<"context", "deadline", "exceeded">>) ]_vars

\* C27: every listener the engine has started terminates: none is ever
\* blocked for good in the send of its receipt or error on a channel that
\* has no receiver left.
C27_NoListenerBlockedForGood ==
    \A a \in Attempts : listener[a] # "blocked"

\* C28: when the boost before an attempt N >= 1 fails, because the
\* fee-suggestion call fails or because the suggested or the previous base
\* fee is negative, WaitMinedWithRetry returns an error that wraps the
\* failure of the boost, calls the submission callback no more, and the
\* options keep the tip and the fee cap they had before that boost.
C28_FailedBoostKeepsFees ==
    [][ /\ ( ( /\ pc = "boost"
               /\ boosts' = boosts + 1
               /\ \/ suggested' = NoSuggestion
                  \/ suggested'.feeCap - suggested'.tip < 0
                  \/ opts.GasFeeCap - opts.GasTipCap < 0 )
             => ( /\ attempt >= 1
                  /\ ret'.returned
                  /\ IsBoostError(ret')
                  /\ ret'.err.attempt = attempt
                  /\ (suggested' = NoSuggestion
                         => ret'.err.cause = <<"failed to suggest gas tip cap and price">>)
                  /\ opts'.GasTipCap = opts.GasTipCap
                  /\ opts'.GasFeeCap = opts.GasFeeCap
                  /\ opts'.GasTipCap = lastSubmit.tip
                  /\ opts'.GasFeeCap = lastSubmit.feeCap
                  /\ submits' = submits ) )
        /\ ((ret.returned /\ IsBoostError(ret))
               => (submits' = submits /\ opts' = opts)) ]_vars

\* the fee-suggestion call of the second boost failed
C28_Witness ==
    /\ pc = "done"
    /\ IsBoostError(ret)
    /\ ret.err.attempt = 2
    /\ ret.err.cause = <<"failed to suggest gas tip cap and price">>
    /\ suggested = NoSuggestion
    /\ submits = 2
    /\ opts.GasTipCap = lastSubmit.tip
    /\ opts.GasFeeCap = lastSubmit.feeCap
    /\ opts.GasTipCap > 0

\* the first boost found the suggested base fee negative
C28_WitnessNegative ==
    /\ pc = "done"
    /\ IsBoostError(ret)
    /\ ret.err.attempt = 1
    /\ suggested = [tip |-> 7, feeCap |-> 0]
    /\ opts.GasTipCap = lastSubmit.tip
    /\ opts.GasFeeCap = lastSubmit.feeCap

\* the list of (pubkey, slot) pairs of a stored slice and of a response
ListOf(sl) == sl.elems
ListOfResponse(d) == IF d.nil THEN <<>> ELSE d.Data

====
